---- MODULE Spec2Model ----
(***************************************************************************)
(* rtest: the two macros of src/src/lib.rs.                                *)
(*                                                                         *)
(*   test_cases!  expands a table of `case(..)` / `skip case(..)` entries  *)
(*                into one test_fn! invocation per entry;                  *)
(*   test_fn!     synthesizes one #[test] function, either ignored with an *)
(*                empty body or wrapped with RUN/PASS/FAIL logging, timing *)
(*                and catch_unwind / resume_unwind.                        *)
(*                                                                         *)
(* Generation (macro expansion and compilation of the generated module) is *)
(* one step; afterwards the host runner invokes the generated functions,   *)
(* possibly concurrently, and every statement of a generated function is   *)
(* one step of that unit.                                                  *)
(***************************************************************************)
EXTENDS Integers, Sequences, FiniteSets, TLC

VARIABLES
    src,        \* the macro invocation written by the user
    gen,        \* result of expanding and compiling it
    pc,         \* per unit: position in the generated function
    fn_name,    \* per unit: local `fn_name`
    start,      \* per unit: local `start` (Instant, in ms)
    res,        \* per unit: result of catch_unwind
    t,          \* per unit: local `t` (Duration, in ms)
    val,        \* per unit: the case-record value bound to the routine's parameter
    evals,      \* per unit: evaluations of the entry's value expression
    calls,      \* per unit: invocations of the body closure by catch_unwind
    applied,    \* per unit: runs of the verification routine / of the block
    log,        \* stdout: the lines printed so far
    signals,    \* per unit: panics that reached the host runner
    clock       \* the monotonic clock (ms)

vars == <<src, gen, pc, fn_name, start, res, t, val, evals, calls, applied, log,
          signals, clock>>

(***************************************************************************)
(* Bounds.                                                                 *)
(***************************************************************************)
MaxEntries == 3     \* longest table given to the expander alone
MaxNames   == 3     \* identifiers available to those tables
MaxUnits   == 2     \* longest table that is also executed
MaxClock   == 3     \* last instant of the clock

(***************************************************************************)
(* Identifiers and strings are sequences of characters.                    *)
(***************************************************************************)
Letters == <<"a", "b", "c", "d", "e", "f", "h", "k">>

Ident(i) == <<Letters[i]>>

GroupName == <<"g">>

NoName == <<>>

DigitChar == <<"0", "1", "2", "3", "4", "5", "6", "7", "8", "9">>

\* Display of an unsigned integer by `{}`: decimal digits, no padding.
RECURSIVE ToDigits(_)
ToDigits(n) ==
    IF n < 10 THEN <<DigitChar[n + 1]>>
    ELSE ToDigits(n \div 10) \o <<DigitChar[(n % 10) + 1]>>

\* Duration::as_secs and Duration::subsec_millis of a duration kept in ms.
as_secs(d) == d \div 1000

subsec_millis(d) == d % 1000

\* format!("{}.{}", t.as_secs(), t.subsec_millis()) of lines 138 and 142.
FormatElapsed(d) == ToDigits(as_secs(d)) \o <<".">> \o ToDigits(subsec_millis(d))

\* Variant: the group name is dropped from the display name.
FnName_Bare(sup, name) == name

\* stringify!($($sup_name)?) / fn_name of lines 128-131.
FnName(sup, name) ==
    IF sup = <<>> THEN name ELSE sup \o <<"/">> \o name

(***************************************************************************)
(* test_fn!: one generated function.                                       *)
(***************************************************************************)
EmptyBlock == [form |-> "empty", routine |-> "none", arg |-> "none"]

\* `$code($case)` of lines 51, 56, 84, 89.
Apply(routine, arg) == [form |-> "apply", routine |-> routine, arg |-> arg]

\* A block written directly in a test_fn! invocation.
Block(behaviour) == [form |-> "block", routine |-> "none", arg |-> behaviour]

\* Variant: the skip marker is lost and the unit is generated as an active one.
test_fn_SkipLost(skip, name, sup, code) ==
    [name |-> name, ignore |-> FALSE, sup |-> sup, body |-> code]

\* Both arms of test_fn!: the skip arm drops $sup_name and $code.
test_fn(skip, name, sup, code) ==
    IF skip
    THEN [name |-> name, ignore |-> TRUE, sup |-> NoName, body |-> EmptyBlock]
    ELSE [name |-> name, ignore |-> FALSE, sup |-> sup, body |-> code]

(***************************************************************************)
(* test_cases!: the two matchers.  A list element is a leading entry of    *)
(* the arm's kind optionally followed by one entry of the other kind;      *)
(* elements repeat one or more times.                                      *)
(***************************************************************************)
NoMatch == [ok |-> FALSE, units |-> <<>>]

RECURSIVE ExpandElems(_, _, _, _)
ExpandElems(entries, firstSkip, group, code) ==
    IF entries = <<>> THEN [ok |-> TRUE, units |-> <<>>]
    ELSE IF entries[1].skip # firstSkip THEN NoMatch
    ELSE
        LET paired == Len(entries) >= 2 /\ entries[2].skip # firstSkip
            lead   == test_fn(firstSkip, entries[1].name, group,
                              Apply(code, entries[1].expr))
            these  == IF paired
                      THEN <<lead, test_fn(~firstSkip, entries[2].name, group,
                                           Apply(code, entries[2].expr))>>
                      ELSE <<lead>>
            rest   == ExpandElems(SubSeq(entries, IF paired THEN 3 ELSE 2, Len(entries)),
                                  firstSkip, group, code)
        IN  IF rest.ok THEN [ok |-> TRUE, units |-> these \o rest.units] ELSE NoMatch

\* One arm: `cases{$case:item}` takes exactly one item, `),+` at least one element.
MatchArm(inv, firstSkip) ==
    IF inv.items # 1 \/ inv.entries = <<>> THEN NoMatch
    ELSE ExpandElems(inv.entries, firstSkip, inv.name, inv.code)

\* macro_rules tries the arms in order.
test_cases(inv) ==
    LET first == MatchArm(inv, TRUE)
    IN  IF first.ok THEN first ELSE MatchArm(inv, FALSE)

\* Variant: two functions of one name are let through.
Compile_DuplicatesAllowed(exp) == exp

\* The generated module holds one `fn $name` per unit; two functions of one
\* name in a module do not compile, and then no test binary exists.
Compile(exp) ==
    IF exp.ok /\ \A i, j \in 1..Len(exp.units) :
                     i # j => exp.units[i].name # exp.units[j].name
    THEN exp
    ELSE NoMatch

Expand(inv) ==
    IF inv.macro = "test_cases"
    THEN Compile(test_cases(inv))
    ELSE Compile([ok |-> TRUE,
                  units |-> <<test_fn(inv.entries[1].skip, inv.entries[1].name,
                                      inv.name, Block(inv.entries[1].expr))>>])

(***************************************************************************)
(* The invocations the user may write.                                     *)
(***************************************************************************)
Exprs == {"good", "bad", "boom"}    \* value passes / fails the routine / panics when built

Routines == {"check", "alwaysFail"}

SeqsUpTo(S, n) == UNION {[1..k -> S] : k \in 0..n}

\* Tables for the expander: any order, any names, one or no case-record type.
GenTables ==
    {[macro |-> "test_cases", name |-> GroupName, items |-> items,
      entries |-> es, code |-> "check"] :
        items \in {0, 1},
        es \in SeqsUpTo([skip : BOOLEAN,
                         name : {Ident(i) : i \in 1..MaxNames},
                         expr : {"good"}], MaxEntries)}

\* Tables that are executed: entry i is named Ident(i).
RunTables(n) ==
    {[macro |-> "test_cases", name |-> GroupName, items |-> 1,
      entries |-> [i \in 1..k |-> [skip |-> sk[i], name |-> Ident(i), expr |-> ex[i]]],
      code |-> code] :
        k \in 1..n, sk \in [1..n -> BOOLEAN], ex \in [1..n -> Exprs], code \in Routines}

\* Direct test_fn! invocations, with and without $sup_name.
DirectFns ==
    {[macro |-> "test_fn", name |-> sup, items |-> 1,
      entries |-> <<[skip |-> sk, name |-> Ident(1), expr |-> ex]>>,
      code |-> "none"] :
        sup \in {NoName, GroupName}, sk \in BOOLEAN, ex \in {"good", "bad"}}

NotGenerated == [ok |-> FALSE, units |-> <<>>, done |-> FALSE]

NoPayload == [kind |-> "none", of |-> NoName]

NoRes == [set |-> FALSE, ok |-> FALSE, err |-> NoPayload]

Ok == [set |-> TRUE, ok |-> TRUE, err |-> NoPayload]

Err(payload) == [set |-> TRUE, ok |-> FALSE, err |-> payload]

Line(tag, name, dur, u) == [tag |-> tag, name |-> name, dur |-> dur, unit |-> u]

InitWith(sources) ==
    /\ src \in sources
    /\ gen = NotGenerated
    /\ pc = <<>>
    /\ fn_name = <<>>
    /\ start = <<>>
    /\ res = <<>>
    /\ t = <<>>
    /\ val = <<>>
    /\ evals = <<>>
    /\ calls = <<>>
    /\ applied = <<>>
    /\ log = <<>>
    /\ signals = <<>>
    /\ clock = 0

Init == InitWith(RunTables(MaxUnits) \cup DirectFns)

InitGen == InitWith(GenTables)

InitTime == InitWith(RunTables(1) \cup DirectFns)

Units == DOMAIN pc

(***************************************************************************)
(* Generation: expansion of the invocation and compilation of the result.  *)
(***************************************************************************)
Generate ==
    /\ ~gen.done
    /\ LET g == Expand(src)
           U == 1..Len(g.units)
       IN  /\ gen' = [ok |-> g.ok, units |-> g.units, done |-> TRUE]
           /\ pc' = [u \in U |-> "Pending"]
           /\ fn_name' = [u \in U |-> NoName]
           /\ start' = [u \in U |-> -1]
           /\ res' = [u \in U |-> NoRes]
           /\ t' = [u \in U |-> -1]
           /\ val' = [u \in U |-> "none"]
           /\ evals' = [u \in U |-> 0]
           /\ calls' = [u \in U |-> 0]
           /\ applied' = [u \in U |-> 0]
           /\ signals' = [u \in U |-> <<>>]
    /\ UNCHANGED <<src, log, clock>>

(***************************************************************************)
(* Execution of one generated function.                                    *)
(***************************************************************************)
\* lines 120-122: `#[ignore] fn $name() {}`; whether the runner passes the
\* function over or calls it (--ignored), nothing runs.
InvokeSkipped(u) ==
    /\ u \in Units /\ pc[u] = "Pending"
    /\ gen.units[u].ignore
    /\ pc' = [pc EXCEPT ![u] = "Skipped"]
    /\ UNCHANGED <<src, gen, fn_name, start, res, t, val, evals, calls, applied, log, signals, clock>>

\* lines 127-131: the runner calls the function, which computes fn_name.
Invoke(u) ==
    /\ u \in Units /\ pc[u] = "Pending"
    /\ ~gen.units[u].ignore
    /\ fn_name' = [fn_name EXCEPT ![u] = FnName(gen.units[u].sup, gen.units[u].name)]
    /\ pc' = [pc EXCEPT ![u] = "l133"]
    /\ UNCHANGED <<src, gen, start, res, t, val, evals, calls, applied, log, signals, clock>>

\* line 133: let start = Instant::now();
SampleStart(u) ==
    /\ u \in Units /\ pc[u] = "l133"
    /\ start' = [start EXCEPT ![u] = clock]
    /\ pc' = [pc EXCEPT ![u] = "l134"]
    /\ UNCHANGED <<src, gen, fn_name, res, t, val, evals, calls, applied, log, signals, clock>>

\* line 134: println!("=== RUN  \t{}", fn_name);
EmitRun(u) ==
    /\ u \in Units /\ pc[u] = "l134"
    /\ log' = Append(log, Line("RUN", fn_name[u], <<>>, u))
    /\ pc' = [pc EXCEPT ![u] = "l135"]
    /\ UNCHANGED <<src, gen, fn_name, start, res, t, val, evals, calls, applied, signals, clock>>

\* Variant: the value is bound into one cell shared by all units of the group.
EnterBody_SharedValue(u) ==
    /\ u \in Units /\ pc[u] = "l135"
    /\ calls' = [calls EXCEPT ![u] = @ + 1]
    /\ LET b == gen.units[u].body
       IN  IF b.form = "apply"
           THEN /\ evals' = [evals EXCEPT ![u] = @ + 1]
                /\ IF b.arg = "boom"
                   THEN /\ res' = [res EXCEPT ![u] =
                                     Err([kind |-> "ctor", of |-> gen.units[u].name])]
                        /\ pc' = [pc EXCEPT ![u] = "l141"]
                        /\ val' = val
                   ELSE /\ val' = [v \in Units |-> b.arg]
                        /\ pc' = [pc EXCEPT ![u] = "body"]
                        /\ res' = res
           ELSE /\ pc' = [pc EXCEPT ![u] = "body"]
                /\ UNCHANGED <<evals, val, res>>
    /\ UNCHANGED <<src, gen, fn_name, start, t, applied, log, signals, clock>>

\* Variant: the value is built outside catch_unwind, so a panic while
\* building it leaves the function at once.
EnterBody_ValueOutsideCatch(u) ==
    /\ u \in Units /\ pc[u] = "l135"
    /\ calls' = [calls EXCEPT ![u] = @ + 1]
    /\ LET b == gen.units[u].body
       IN  IF b.form = "apply"
           THEN /\ evals' = [evals EXCEPT ![u] = @ + 1]
                /\ IF b.arg = "boom"
                   THEN /\ signals' = [signals EXCEPT ![u] =
                              Append(@, [kind |-> "ctor", of |-> gen.units[u].name])]
                        /\ pc' = [pc EXCEPT ![u] = "Failed"]
                        /\ UNCHANGED <<val, res>>
                   ELSE /\ val' = [val EXCEPT ![u] = b.arg]
                        /\ pc' = [pc EXCEPT ![u] = "body"]
                        /\ UNCHANGED <<res, signals>>
           ELSE /\ pc' = [pc EXCEPT ![u] = "body"]
                /\ UNCHANGED <<evals, val, res, signals>>
    /\ UNCHANGED <<src, gen, fn_name, start, t, applied, log, clock>>

\* line 135: catch_unwind calls the closure; in `$code($case)` the callee and
\* then the argument are evaluated; building the argument may panic.
EnterBody(u) ==
    /\ u \in Units /\ pc[u] = "l135"
    /\ calls' = [calls EXCEPT ![u] = @ + 1]
    /\ LET b == gen.units[u].body
       IN  IF b.form = "apply"
           THEN /\ evals' = [evals EXCEPT ![u] = @ + 1]
                /\ IF b.arg = "boom"
                   THEN /\ res' = [res EXCEPT ![u] =
                                     Err([kind |-> "ctor", of |-> gen.units[u].name])]
                        /\ pc' = [pc EXCEPT ![u] = "l141"]
                        /\ val' = val
                   ELSE /\ val' = [val EXCEPT ![u] = b.arg]
                        /\ pc' = [pc EXCEPT ![u] = "body"]
                        /\ res' = res
           ELSE /\ pc' = [pc EXCEPT ![u] = "body"]
                /\ UNCHANGED <<evals, val, res>>
    /\ UNCHANGED <<src, gen, fn_name, start, t, applied, log, signals, clock>>

\* The verification routine (or the block) runs: it returns or panics.
Verdict(routine, x) == routine # "alwaysFail" /\ x = "good"

RunBody(u) ==
    /\ u \in Units /\ pc[u] = "body"
    /\ applied' = [applied EXCEPT ![u] = @ + 1]
    /\ IF LET b == gen.units[u].body
          IN  Verdict(b.routine, IF b.form = "apply" THEN val[u] ELSE b.arg)
       THEN /\ res' = [res EXCEPT ![u] = Ok]
            /\ pc' = [pc EXCEPT ![u] = "l137"]
       ELSE /\ res' = [res EXCEPT ![u] =
                         Err([kind |-> "assert", of |-> gen.units[u].name])]
            /\ pc' = [pc EXCEPT ![u] = "l141"]
    /\ UNCHANGED <<src, gen, fn_name, start, t, val, evals, calls, log, signals, clock>>

\* Variant: the two arms of the match are exchanged.
SampleEnd_ArmsExchanged(u) ==
    /\ u \in Units /\ pc[u] \in {"l137", "l141"}
    /\ t' = [t EXCEPT ![u] = clock - start[u]]
    /\ pc' = [pc EXCEPT ![u] = IF pc[u] = "l137" THEN "l142" ELSE "l138"]
    /\ UNCHANGED <<src, gen, fn_name, start, res, val, evals, calls, applied, log, signals, clock>>

\* lines 137 and 141: let t = start.elapsed();
SampleEnd(u) ==
    /\ u \in Units /\ pc[u] \in {"l137", "l141"}
    /\ t' = [t EXCEPT ![u] = clock - start[u]]
    /\ pc' = [pc EXCEPT ![u] = IF pc[u] = "l137" THEN "l138" ELSE "l142"]
    /\ UNCHANGED <<src, gen, fn_name, start, res, val, evals, calls, applied, log, signals, clock>>

\* line 138: println!("--- PASS:\t{} ({}.{})", ...); the function returns.
EmitPass(u) ==
    /\ u \in Units /\ pc[u] = "l138"
    /\ log' = Append(log, Line("PASS", fn_name[u], FormatElapsed(t[u]), u))
    /\ pc' = [pc EXCEPT ![u] = "Passed"]
    /\ UNCHANGED <<src, gen, fn_name, start, res, t, val, evals, calls, applied, signals, clock>>

\* line 142: println!("--- FAIL:\t{} ({}.{})", ...);
EmitFail(u) ==
    /\ u \in Units /\ pc[u] = "l142"
    /\ log' = Append(log, Line("FAIL", fn_name[u], FormatElapsed(t[u]), u))
    /\ pc' = [pc EXCEPT ![u] = "l143"]
    /\ UNCHANGED <<src, gen, fn_name, start, res, t, val, evals, calls, applied, signals, clock>>

\* Variant: the panic is swallowed after the FAIL line.
Resume_Swallowed(u) ==
    /\ u \in Units /\ pc[u] = "l143"
    /\ pc' = [pc EXCEPT ![u] = "Failed"]
    /\ UNCHANGED <<src, gen, fn_name, start, res, t, val, evals, calls, applied, log, signals,
                   clock>>

\* line 143: std::panic::resume_unwind(err);
Resume(u) ==
    /\ u \in Units /\ pc[u] = "l143"
    /\ signals' = [signals EXCEPT ![u] = Append(@, res[u].err)]
    /\ pc' = [pc EXCEPT ![u] = "Failed"]
    /\ UNCHANGED <<src, gen, fn_name, start, res, t, val, evals, calls, applied, log, clock>>

\* Time passes.
Tick ==
    /\ clock < MaxClock
    /\ clock' = clock + 1
    /\ UNCHANGED <<src, gen, pc, fn_name, start, res, t, val, evals, calls, applied, log, signals>>

Step(u) ==
    \/ InvokeSkipped(u)
    \/ Invoke(u)
    \/ SampleStart(u)
    \/ EmitRun(u)
    \/ EnterBody(u)
    \/ RunBody(u)
    \/ SampleEnd(u)
    \/ EmitPass(u)
    \/ EmitFail(u)
    \/ Resume(u)

\* Concurrent execution of all units; the clock stands still here, timing
\* is studied with one unit under NextTime.
Next == Generate \/ \E u \in 1..MaxUnits : Step(u)

NextGen == Generate

NextTime == Generate \/ Tick \/ Step(1)

Spec == Init /\ [][Next]_vars

SpecGen == InitGen /\ [][NextGen]_vars

SpecTime == InitTime /\ [][NextTime]_vars

\* A thread that runs a generated function keeps running its own statements;
\* whether the body ever returns is left open.
Wrapper(u) ==
    \/ Invoke(u) \/ InvokeSkipped(u) \/ SampleStart(u) \/ EmitRun(u)
    \/ SampleEnd(u) \/ EmitPass(u) \/ EmitFail(u) \/ Resume(u)

FairSpec == Init /\ [][Next]_vars /\ \A u \in 1..MaxUnits : WF_vars(Wrapper(u))

(***************************************************************************)
(* Properties of generation.                                               *)
(***************************************************************************)
DistinctNames(es) == \A i, j \in 1..Len(es) : i # j => es[i].name # es[j].name

WellFormed(inv) ==
    inv.macro = "test_cases" /\ inv.items = 1 /\ inv.entries # <<>>
    /\ DistinctNames(inv.entries)

Malformed(inv) ==
    inv.macro = "test_cases"
    /\ (inv.items # 1 \/ inv.entries = <<>> \/ ~DistinctNames(inv.entries))

UnitSet(g) == {<<g.units[i].name, g.units[i].ignore>> : i \in 1..Len(g.units)}

Orders(n) == {p \in [1..n -> 1..n] : \A i, j \in 1..n : i # j => p[i] # p[j]}

Reordered(inv, p) ==
    [inv EXCEPT !.entries = [i \in 1..Len(inv.entries) |-> inv.entries[p[i]]]]

\* C1: every non-empty table of distinctly named entries, whatever its skip
\* flags and whatever the order of normal and skipped entries, expands
\* successfully into one unit per entry with the entry's name and skip flag,
\* and every reordering of the table expands to the same set of units.
C1_EveryOrderExpands ==
    (gen.done /\ WellFormed(src)) =>
        /\ gen.ok
        /\ Len(gen.units) = Len(src.entries)
        /\ \A i \in 1..Len(gen.units) :
              /\ gen.units[i].name = src.entries[i].name
              /\ gen.units[i].ignore = src.entries[i].skip
        /\ \A p \in Orders(Len(src.entries)) :
              UnitSet(Expand(Reordered(src, p))) = UnitSet(gen)

\* C6: a table without its case-record type, with no entry, or with a case
\* name that occurs twice yields no unit at all.
C6_MalformedYieldsNoUnit ==
    (gen.done /\ Malformed(src)) =>
        /\ ~gen.ok
        /\ gen.units = <<>>
        /\ pc = <<>>

C6_Witness ==
    /\ gen.done
    /\ src.items = 1
    /\ Len(src.entries) >= 2
    /\ ~DistinctNames(src.entries)
    /\ test_cases(src).ok
    /\ gen.units = <<>>

(***************************************************************************)
(* Properties of execution.                                                *)
(***************************************************************************)
LinesOf(u) == SelectSeq(log, LAMBDA l : l.unit = u)

Tags(u) == [i \in 1..Len(LinesOf(u)) |-> LinesOf(u)[i].tag]

IsPrefix(a, b) == Len(a) <= Len(b) /\ \A i \in 1..Len(a) : a[i] = b[i]

Phase(p) ==
    IF p \in {"Pending", "Skipped", "Passed", "Failed"} THEN p ELSE "Running"

\* The entry unit u was generated from (units keep the order of the entries).
EntryOf(u) == src.entries[u]

\* C2: a unit synthesized with skip = true only ever goes from Pending to
\* Skipped: its body closure, its value expression and the verification
\* routine are never run, it prints no line and signals nothing to the
\* runner, also when the routine fails unconditionally.
C2_SkippedNeverRuns ==
    \A u \in Units :
        EntryOf(u).skip =>
            /\ pc[u] \in {"Pending", "Skipped"}
            /\ calls[u] = 0 /\ evals[u] = 0 /\ applied[u] = 0
            /\ LinesOf(u) = <<>>
            /\ signals[u] = <<>>

C2_Witness ==
    \E u \in Units :
        /\ EntryOf(u).skip
        /\ src.code = "alwaysFail"
        /\ pc[u] = "Skipped"

\* What the body of a unit raises when it fails.
Raised(unit) ==
    [kind |-> IF unit.body.form = "apply" /\ unit.body.arg = "boom"
              THEN "ctor" ELSE "assert",
     of |-> unit.name]

\* C3: when the body of an active unit panics, the FAIL line is printed
\* first and the panic then reaches the runner exactly once, with the
\* payload the body raised; when the body returns, nothing reaches the runner.
C3_FailureReachesRunnerOnce ==
    \A u \in Units :
        /\ Len(signals[u]) <= 1
        /\ signals[u] # <<>> =>
              /\ Tags(u) = <<"RUN", "FAIL">>
              /\ signals[u] = <<Raised(gen.units[u])>>
              /\ res[u].set /\ ~res[u].ok
        /\ (res[u].set /\ ~res[u].ok) =>
              /\ res[u].err = Raised(gen.units[u])
              /\ pc[u] \in {"l141", "l142", "l143", "Failed"}
              /\ (pc[u] = "Failed" => signals[u] = <<res[u].err>>)
        /\ (res[u].set /\ res[u].ok) =>
              /\ signals[u] = <<>>
              /\ pc[u] \in {"l137", "l138", "Passed"}

C3_Witness ==
    \E u \in Units :
        /\ pc[u] = "Failed"
        /\ gen.units[u].body.arg = "bad"
        /\ signals[u] = <<[kind |-> "assert", of |-> gen.units[u].name]>>

\* C5: every line of an active unit shows "<group>/<name>" when a group name
\* was given to test_fn!, which is always the case for a unit of test_cases!,
\* and the bare "<name>" when none was given.
C5_DisplayName ==
    \A i \in 1..Len(log) :
        LET e == EntryOf(log[i].unit)
        IN  log[i].name = IF src.name = NoName
                          THEN e.name
                          ELSE src.name \o <<"/">> \o e.name

C5_Witness ==
    /\ src.macro = "test_cases"
    /\ \E i, j \in 1..Len(log) :
          /\ i < j
          /\ log[i].unit = 2 /\ log[j].unit = 2
          /\ log[i].name = <<"g", "/", "b">>
          /\ log[j].name = <<"g", "/", "b">>

\* The result a unit has when it runs alone: a function of its own entry.
Alone(unit) ==
    IF unit.ignore THEN "Skipped"
    ELSE IF unit.body.form = "apply" /\ unit.body.arg = "boom" THEN "Failed"
    ELSE IF unit.body.routine # "alwaysFail" /\ unit.body.arg = "good" THEN "Passed"
    ELSE "Failed"

\* C7: under every interleaving each unit works on the value of its own
\* entry, prints its own lines in the order RUN, then PASS or FAIL, and ends
\* as it does when it runs alone.
C7_UnitsIndependent ==
    \A u \in Units :
        /\ val[u] \in {"none", EntryOf(u).expr}
        /\ \/ IsPrefix(Tags(u), <<"RUN", "PASS">>)
           \/ IsPrefix(Tags(u), <<"RUN", "FAIL">>)
        /\ pc[u] \in {"Skipped", "Passed", "Failed"} => pc[u] = Alone(gen.units[u])
        /\ Len(Tags(u)) = 2 => Tags(u)[2] = (IF Alone(gen.units[u]) = "Passed"
                                             THEN "PASS" ELSE "FAIL")

C7_Witness ==
    /\ Len(log) = 4
    /\ log[1].unit = 1 /\ log[2].unit = 2 /\ log[3].unit = 1 /\ log[4].unit = 2
    /\ pc[1] = "Passed" /\ pc[2] = "Failed"
    /\ EntryOf(1).expr # EntryOf(2).expr

\* C10: in a unit of test_cases! the entry's value expression is evaluated
\* inside the body, after the RUN line and once per invocation; a panic
\* while building the value of a non-skipped entry is reported like a failed
\* verification (FAIL line, then the panic reaches the runner) without the
\* routine being run; the value of a skipped entry is never evaluated.
C10_ValueBuiltInsideBody ==
    \A u \in Units :
        /\ evals[u] <= 1
        /\ evals[u] = 1 => (Len(Tags(u)) >= 1 /\ Tags(u)[1] = "RUN" /\ calls[u] = 1)
        /\ EntryOf(u).skip => evals[u] = 0
        /\ (src.macro = "test_cases" /\ pc[u] \in {"Passed", "Failed"}) => evals[u] = 1
        /\ (src.macro = "test_cases" /\ ~EntryOf(u).skip /\ EntryOf(u).expr = "boom") =>
              /\ applied[u] = 0
              /\ pc[u] # "Passed"
              /\ evals[u] = 1 => pc[u] \in {"l141", "l142", "l143", "Failed"}
              /\ pc[u] = "Failed" =>
                    /\ Tags(u) = <<"RUN", "FAIL">>
                    /\ signals[u] = <<[kind |-> "ctor", of |-> EntryOf(u).name]>>

C10_Witness ==
    \E u, v \in Units :
        /\ ~EntryOf(u).skip /\ EntryOf(u).expr = "boom" /\ pc[u] = "Failed"
        /\ EntryOf(v).skip /\ EntryOf(v).expr = "boom" /\ pc[v] = "Skipped"

\* C4, in every state: an active unit prints RUN before its body is invoked,
\* invokes the body at most once, and prints exactly one closing line after
\* the body has finished, PASS exactly when the body returned.
C4_Safety ==
    \A u \in Units :
        ~gen.units[u].ignore =>
            /\ calls[u] <= 1 /\ applied[u] <= calls[u]
            /\ calls[u] = 1 => (Tags(u) # <<>> /\ Tags(u)[1] = "RUN")
            /\ res[u].set => calls[u] = 1
            /\ \/ IsPrefix(Tags(u), <<"RUN", "PASS">>)
               \/ IsPrefix(Tags(u), <<"RUN", "FAIL">>)
            /\ Len(Tags(u)) = 2 =>
                  /\ res[u].set
                  /\ (Tags(u)[2] = "PASS") <=> res[u].ok
            /\ pc[u] = "Passed" => (Tags(u) = <<"RUN", "PASS">> /\ res[u].ok)
            /\ pc[u] = "Failed" => (Tags(u) = <<"RUN", "FAIL">> /\ ~res[u].ok)
            /\ pc[u] # "Skipped"

\* C4, in every step: Pending -> Running -> Passed or Failed, never back.
C4_Step ==
    \A u \in Units \cap DOMAIN pc' :
        \/ Phase(pc'[u]) = Phase(pc[u])
        \/ <<Phase(pc[u]), Phase(pc'[u])>> \in
              {<<"Pending", "Running">>, <<"Running", "Passed">>,
               <<"Running", "Failed">>, <<"Pending", "Skipped">>}

\* C4, eventually: once the body has finished the unit reaches Passed or Failed.
C4_Live ==
    \A u \in 1..MaxUnits :
        (u \in Units /\ res[u].set) ~> (u \in Units /\ pc[u] \in {"Passed", "Failed"})

\* C4: every invocation of an active unit follows Pending -> Running ->
\* Passed or Failed: RUN before the body, the body once, then exactly one
\* closing line (PASS iff the body returned, FAIL iff it panicked), nothing
\* after it, never back to Pending or Running, and a unit whose body
\* finishes eventually reaches Passed or Failed.
C4_ActiveLifecycle == []C4_Safety /\ [][C4_Step]_vars /\ C4_Live

C4_Witness ==
    \E u, v \in Units :
        /\ pc[u] = "Passed" /\ Tags(u) = <<"RUN", "PASS">> /\ calls[u] = 1
        /\ pc[v] = "Failed" /\ Tags(v) = <<"RUN", "FAIL">> /\ calls[v] = 1

(***************************************************************************)
(* Properties of timing and of the printed duration.                       *)
(***************************************************************************)
\* C8: the start instant is sampled after the RUN line has been printed and
\* right before the body is invoked, the end instant after the body has
\* finished and before the closing line; the elapsed time is not negative.
C8_StartSampledAfterRunLine ==
    \A u \in Units :
        /\ start[u] >= 0 => (Tags(u) # <<>> /\ Tags(u)[1] = "RUN")
        /\ pc[u] = "l135" => start[u] >= 0
        /\ t[u] # -1 => (res[u].set /\ t[u] >= 0 /\ t[u] <= clock - start[u])

DigitVal(c) == CHOOSE d \in 0..9 : DigitChar[d + 1] = c

RECURSIVE ToNat(_)
ToNat(ds) ==
    IF ds = <<>> THEN 0
    ELSE 10 * ToNat(SubSeq(ds, 1, Len(ds) - 1)) + DigitVal(ds[Len(ds)])

RECURSIVE Pow10(_)
Pow10(k) == IF k = 0 THEN 1 ELSE 10 * Pow10(k - 1)

\* The text "<int>.<frac>" read as a decimal number of seconds, in ms.
ReadMillis(text) ==
    LET dot  == CHOOSE i \in 1..Len(text) : text[i] = "."
        int  == SubSeq(text, 1, dot - 1)
        frac == SubSeq(text, dot + 1, Len(text))
    IN  1000 * ToNat(int) + (1000 * ToNat(frac)) \div Pow10(Len(frac))

\* C9: the duration printed in a PASS or FAIL line, read as a decimal number
\* of seconds, is the elapsed time in milliseconds.
C9_PrintedDurationIsElapsed ==
    \A i \in 1..Len(log) :
        log[i].tag \in {"PASS", "FAIL"} => ReadMillis(log[i].dur) = t[log[i].unit]

====
